---- MODULE Spec2Model ----
(***************************************************************************)
(* Account workflow of the blog backend (controllers/authController.js):   *)
(* register, login and updateProfile as concurrent request handlers over a *)
(* user collection and a remote media store.  Every `await` of a handler   *)
(* is a point where other requests may run, so each handler is cut into    *)
(* one action per awaited call; the synchronous code before the first      *)
(* await runs in the step in which that first call resolves.               *)
(*                                                                         *)
(* Avatar values are JavaScript strings modelled as sequences of           *)
(* one-character strings; the other fields are only compared and tested    *)
(* for truthiness and are kept as TLA+ strings.                            *)
(***************************************************************************)
EXTENDS Integers, Sequences, FiniteSets, TLC

\* ------------------------------------------------------------ bounds
\* Number of requests the server receives; all of them may be in flight at once.
MaxReq == 3
\* Number of media objects the store hands out keys for.
MaxUploads == 2

\* ------------------------------------------------------------ values
\* A property of req.body (or of a document) that is not there.
Undefined == "undefined"

\* Bodies of the register requests: complete ones, with and without a bio, and
\* one that lacks a required field.
RegBodies ==
  {[name |-> "alice", email |-> "a@x", password |-> "p1", bio |-> Undefined],
   [name |-> "alice", email |-> "a@x", password |-> "p1", bio |-> "yo"],
   [name |-> "alice", email |-> "a@x", password |-> Undefined, bio |-> Undefined]}

\* Bodies of the login requests: the registered email with either password, an
\* email nobody registers, and one that lacks a required field.
LoginBodies ==
  {[name |-> Undefined, email |-> "a@x", password |-> "p1", bio |-> Undefined],
   [name |-> Undefined, email |-> "a@x", password |-> "p2", bio |-> Undefined],
   [name |-> Undefined, email |-> "b@x", password |-> "p1", bio |-> Undefined],
   [name |-> Undefined, email |-> "a@x", password |-> "", bio |-> Undefined]}

\* Bodies of the updateProfile requests: each field absent, empty and non-empty.
Patches ==
  {[name |-> "bob", email |-> Undefined, password |-> Undefined, bio |-> Undefined],
   [name |-> "", email |-> Undefined, password |-> "", bio |-> ""],
   [name |-> Undefined, email |-> Undefined, password |-> "p2", bio |-> "hi"]}

\* Values of req.user._id of the updateProfile requests: the id the first
\* registered user gets; until that registration no record has it.
UserIds == {1}

\* JavaScript truthiness of a string-or-undefined value.
Truthy(v) == v # Undefined /\ v # ""

\* a || b
OrElse(a, b) == IF Truthy(a) THEN a ELSE b

\* ------------------------------------------------------------ strings
EmptyStr == << >>
HTTP == <<"h", "t", "t", "p">>
AVATARS == <<"a", "v", "a", "t", "a", "r", "s">>
PNG == <<"p", "n", "g">>
HOST == HTTP \o <<":", "/", "/", "m", ".", "x", "/", "u", "/">>

\* String.prototype.startsWith
StartsWith(s, p) == Len(s) >= Len(p) /\ SubSeq(s, 1, Len(p)) = p

\* String.prototype.split for a one-character separator: the pieces between
\* the separators, empty pieces kept.
RECURSIVE SplitFrom(_, _, _, _)
SplitFrom(s, sep, i, cur) ==
  IF i > Len(s) THEN <<cur>>
  ELSE IF s[i] = sep THEN <<cur>> \o SplitFrom(s, sep, i + 1, << >>)
  ELSE SplitFrom(s, sep, i + 1, Append(cur, s[i]))

Split(s, sep) == SplitFrom(s, sep, 1, << >>)

\* Array.prototype.slice(-n)
SliceLast(a, n) == IF Len(a) <= n THEN a ELSE SubSeq(a, Len(a) - n + 1, Len(a))

\* Array.prototype.join for a one-character separator
RECURSIVE Join(_, _)
Join(a, sep) ==
  IF Len(a) = 0 THEN << >>
  ELSE IF Len(a) = 1 THEN a[1]
  ELSE a[1] \o <<sep>> \o Join(Tail(a), sep)

\* user.avatar.split("/").slice(-2).join("/").split(".")[0]
OldPublicId(avatar) == Split(Join(SliceLast(Split(avatar, "/"), 2), "/"), ".")[1]

\* Decimal digit of a media key.
Digit(n) == <<"0", "1", "2", "3", "4", "5", "6", "7", "8", "9">>[n + 1]

\* ------------------------------------------------------------ media store
\* Identifier the store gives the n-th object of the "avatars" folder.
PublicId(n) == AVATARS \o <<"/", "k", Digit(n)>>

\* Locator the adapter returns for an uploaded object: an absolute URL on the
\* media host, or the object's path relative to it.
UrlOf(style, n) ==
  IF style = "absolute" THEN HOST \o PublicId(n) \o <<".">> \o PNG
  ELSE PublicId(n) \o <<".">> \o PNG

UrlStyles == {"absolute", "relative"}

\* ------------------------------------------------------------ collaborators
\* Salted hash kept in the password field; matchPassword compares against it.
Hash(p) == <<"hash", p>>
matchPassword(stored, p) == stored = Hash(p)

\* generateToken(user._id)
generateToken(id) == <<"token", id>>

\* ApiResponse.success / ApiResponse.error / next(error)
ApiSuccess(status, message, data) ==
  [via |-> "res", success |-> TRUE, status |-> status, message |-> message, data |-> data]
ApiError(status, message) ==
  [via |-> "res", success |-> FALSE, status |-> status, message |-> message]
NextError(error) == [via |-> "next", error |-> error]
NoRes == [via |-> "none"]

\* ------------------------------------------------------------ state
VARIABLES
  users,       \* the user collection: sequence of records, _id = position
  media,       \* identifiers of the objects that exist in the media store
  nextKey,     \* key the media store gives its next object
  urlStyle,    \* shape of the locators the media adapter returns
  req,         \* request -> the handler's locals, position and response
  lastWriter   \* the request whose create/save wrote users last, or 0

vars == <<users, media, nextKey, urlStyle, req, lastWriter>>

Slots == 1..MaxReq

\* null, as returned by findOne / findById when nothing matches
NoUser == [_id |-> 0]

NoBody == [name |-> Undefined, email |-> Undefined, password |-> Undefined, bio |-> Undefined]

IdleReq ==
  [kind |-> "none", pc |-> "idle", body |-> NoBody, file |-> FALSE, uid |-> 0,
   user |-> NoUser, loaded |-> NoUser, avatarUrl |-> EmptyStr,
   calls |-> << >>, res |-> NoRes]

\* ------------------------------------------------------------ User repository
\* User.findOne({ email }): the record with that email, or null.
findOne(us, email) ==
  IF \E i \in 1..Len(us) : us[i].email = email
  THEN us[CHOOSE i \in 1..Len(us) : us[i].email = email]
  ELSE NoUser

\* Default projection: the password field is not selected.
Projected(u) == [u EXCEPT !.password = Undefined]

\* User.findById(id), default projection.
findById(us, id) == IF id \in 1..Len(us) THEN Projected(us[id]) ELSE NoUser

\* User.create(fields): the new collection; the unique index on email rejects
\* a second record with the same email (reported by CreateRejected).
CreateRejected(us, fields) == \E i \in 1..Len(us) : us[i].email = fields.email

create(us, fields) ==
  Append(us, [_id |-> Len(us) + 1, name |-> fields.name, email |-> fields.email,
              password |-> Hash(fields.password), bio |-> fields.bio,
              avatar |-> fields.avatar])

\* What a resolving user.save() writes. The User model is not part of the
\* source tree, and the two ways a document store persists a loaded document
\* differ once another request has written in between:
\*   "document"  every selected field of the document replaces the stored one;
\*   "modified"  only the fields whose value differs from the loaded one do.
\* The password was not selected by the load, so in both it is written
\* (re-hashed) only when the handler assigned one.
SaveModes == {"document", "modified"}

save(us, doc, loaded, mode) ==
  LET stored == us[doc._id]
      Written(field) == mode = "document" \/ doc[field] # loaded[field]
  IN [us EXCEPT ![doc._id] =
        [_id |-> doc._id,
         name |-> IF Written("name") THEN doc.name ELSE stored.name,
         email |-> IF Written("email") THEN doc.email ELSE stored.email,
         password |-> IF doc.password = Undefined THEN stored.password
                      ELSE Hash(doc.password),
         bio |-> IF Written("bio") THEN doc.bio ELSE stored.bio,
         avatar |-> IF Written("avatar") THEN doc.avatar ELSE stored.avatar]]

\* The fields both register and login answer with.
ViewWithToken(u) ==
  [_id |-> u._id, name |-> u.name, email |-> u.email, bio |-> u.bio,
   avatar |-> u.avatar, token |-> generateToken(u._id)]

\* The fields updateProfile answers with.
View(u) ==
  [_id |-> u._id, name |-> u.name, email |-> u.email, bio |-> u.bio, avatar |-> u.avatar]

\* ------------------------------------------------------------ initial state
Init ==
  /\ users = << >>
  /\ media = {}
  /\ nextKey = 1
  /\ urlStyle \in UrlStyles
  /\ req = [r \in Slots |-> IdleReq]
  /\ lastWriter = 0

\* Request r arrives: requests are numbered in the order in which their first
\* query reaches the database.
Arrives(r) == req[r].pc = "idle" /\ \A q \in 1..(r - 1) : req[q].pc # "idle"

\* Request r ends with response x.
Finish(r, x) == [req EXCEPT ![r].pc = "done", ![r].res = x]

\* ------------------------------------------------------------ register
\* Lines 13-31 / 39: the request arrives, the body is validated and findOne
\* resolves; a validation error, a conflict, or on to the upload or the create.
RegFindOne(r, b, file) ==
  /\ Arrives(r)
  /\ LET q == [IdleReq EXCEPT !.kind = "register", !.body = b, !.file = file]
         userExists == findOne(users, b.email)
     IN req' = [req EXCEPT ![r] =
                  IF ~Truthy(b.name) \/ ~Truthy(b.email) \/ ~Truthy(b.password)
                  THEN [q EXCEPT !.pc = "done",
                                 !.res = ApiError(400, "Please provide all required fields")]
                  ELSE IF userExists # NoUser
                  THEN [q EXCEPT !.pc = "done",
                                 !.res = ApiError(400, "User already exists")]
                  ELSE [q EXCEPT !.pc = IF file THEN "reg_upload" ELSE "reg_create"]]
  /\ UNCHANGED <<users, media, nextKey, urlStyle, lastWriter>>

\* Lines 31-36: uploadToCloudinary resolves with a url, or rejects.
RegUpload(r) ==
  /\ req[r].pc = "reg_upload"
  /\ \E ok \in BOOLEAN :
       IF ok
       THEN /\ nextKey <= MaxUploads
            /\ media' = media \cup {PublicId(nextKey)}
            /\ nextKey' = nextKey + 1
            /\ req' = [req EXCEPT ![r].pc = "reg_create",
                                  ![r].avatarUrl = UrlOf(urlStyle, nextKey),
                                  ![r].calls = Append(@, [op |-> "upload", ok |-> TRUE,
                                                          id |-> PublicId(nextKey),
                                                          url |-> UrlOf(urlStyle, nextKey)])]
       ELSE /\ req' = [Finish(r, NextError("UploadError")) EXCEPT
                         ![r].calls = Append(@, [op |-> "upload", ok |-> FALSE,
                                                 id |-> EmptyStr, url |-> EmptyStr])]
            /\ UNCHANGED <<media, nextKey>>
  /\ UNCHANGED <<users, urlStyle, lastWriter>>

\* Lines 39-63: User.create resolves with the new user, or rejects.
RegCreate(r) ==
  /\ req[r].pc = "reg_create"
  /\ LET b == req[r].body
         fields == [name |-> b.name, email |-> b.email, password |-> b.password,
                    bio |-> OrElse(b.bio, ""), avatar |-> req[r].avatarUrl]
     IN IF CreateRejected(users, fields)
        THEN /\ req' = Finish(r, NextError("DuplicateKey"))
             /\ UNCHANGED <<users, lastWriter>>
        ELSE /\ users' = create(users, fields)
             /\ lastWriter' = r
             /\ req' = [Finish(r, ApiSuccess(201, "User registered successfully",
                                              ViewWithToken(users'[Len(users')])))
                          EXCEPT ![r].user = Projected(users'[Len(users')])]
  /\ UNCHANGED <<media, nextKey, urlStyle>>

\* ------------------------------------------------------------ login
\* Variant of LoginFindOne that answers an unknown email with its own message.
LoginFindOne_RevealsUnknown(r, b) ==
  /\ Arrives(r)
  /\ LET q == [IdleReq EXCEPT !.kind = "login", !.body = b]
         user == findOne(users, b.email)
     IN req' = [req EXCEPT ![r] =
                  IF ~Truthy(b.email) \/ ~Truthy(b.password)
                  THEN [q EXCEPT !.pc = "done",
                                 !.res = ApiError(400, "Please provide email and password")]
                  ELSE IF user = NoUser
                  THEN [q EXCEPT !.pc = "done", !.res = ApiError(404, "User not found")]
                  ELSE [q EXCEPT !.pc = "login_match", !.user = user]]
  /\ UNCHANGED <<users, media, nextKey, urlStyle, lastWriter>>

\* Lines 69-81 / 92-94: the request arrives, the body is validated and
\* findOne(...).select('+password') resolves; a null user short-circuits the &&
\* and is answered 401, otherwise matchPassword is awaited.
LoginFindOne(r, b) ==
  /\ Arrives(r)
  /\ LET q == [IdleReq EXCEPT !.kind = "login", !.body = b]
         user == findOne(users, b.email)
     IN req' = [req EXCEPT ![r] =
                  IF ~Truthy(b.email) \/ ~Truthy(b.password)
                  THEN [q EXCEPT !.pc = "done",
                                 !.res = ApiError(400, "Please provide email and password")]
                  ELSE IF user = NoUser
                  THEN [q EXCEPT !.pc = "done",
                                 !.res = ApiError(401, "Invalid email or password")]
                  ELSE [q EXCEPT !.pc = "login_match", !.user = user]]
  /\ UNCHANGED <<users, media, nextKey, urlStyle, lastWriter>>

\* Lines 81-94: matchPassword resolves against the hash of the loaded document.
LoginMatch(r) ==
  /\ req[r].pc = "login_match"
  /\ req' = IF matchPassword(req[r].user.password, req[r].body.password)
            THEN Finish(r, ApiSuccess(200, "Login successful", ViewWithToken(req[r].user)))
            ELSE Finish(r, ApiError(401, "Invalid email or password"))
  /\ UNCHANGED <<users, media, nextKey, urlStyle, lastWriter>>

\* ------------------------------------------------------------ updateProfile
\* Lines 156-158: user.password = req.body.password when one is supplied.
WithPassword(user, body) ==
  IF Truthy(body.password) THEN [user EXCEPT !.password = body.password] ELSE user

\* Variant of DeletesOld without the startsWith test.
DeletesOld_NoUrlTest(avatar) == avatar # EmptyStr

\* Line 134: user.avatar && !user.avatar.startsWith('http')
DeletesOld(avatar) == avatar # EmptyStr /\ ~StartsWith(avatar, HTTP)

\* The request after findById resolved with `loaded`: null is answered 404
\* (lines 169-171); otherwise name and bio are assigned in memory with `bio`
\* the new bio, and with a file the handler goes on to the delete or the
\* upload, without one to the save (lines 127-134, 156-158).
Loaded(q, loaded, bio) ==
  IF loaded = NoUser
  THEN [q EXCEPT !.pc = "done", !.res = ApiError(404, "User not found")]
  ELSE LET user == [loaded EXCEPT !.name = OrElse(q.body.name, loaded.name),
                                  !.bio = bio]
       IN [q EXCEPT
             !.loaded = loaded,
             !.user = IF q.file THEN user ELSE WithPassword(user, q.body),
             !.pc = IF ~q.file THEN "up_save"
                    ELSE IF DeletesOld(loaded.avatar) THEN "up_delete"
                    ELSE "up_upload"]

\* Variant of UpFindById that takes the bio with || like the name.
UpFindById_BioTruthy(r, uid, b, file) ==
  /\ Arrives(r)
  /\ LET q == [IdleReq EXCEPT !.kind = "updateProfile", !.body = b, !.file = file,
                              !.uid = uid]
         loaded == findById(users, uid)
     IN req' = [req EXCEPT ![r] =
                  Loaded(q, loaded, IF loaded = NoUser THEN Undefined
                                    ELSE OrElse(b.bio, loaded.bio))]
  /\ UNCHANGED <<users, media, nextKey, urlStyle, lastWriter>>

\* Lines 123-141 / 169-171: the request arrives and findById(req.user._id)
\* resolves; without a record the answer is 404; line 129 takes the bio of
\* the body whenever the key is there.
UpFindById(r, uid, b, file) ==
  /\ Arrives(r)
  /\ LET q == [IdleReq EXCEPT !.kind = "updateProfile", !.body = b, !.file = file,
                              !.uid = uid]
         loaded == findById(users, uid)
     IN req' = [req EXCEPT ![r] =
                  Loaded(q, loaded, IF loaded = NoUser THEN Undefined
                                    ELSE IF b.bio # Undefined THEN b.bio
                                    ELSE loaded.bio)]
  /\ UNCHANGED <<users, media, nextKey, urlStyle, lastWriter>>

\* Variant of UpDelete without the try/catch: a rejected delete reaches the
\* handler's catch.
UpDelete_NoCatch(r) ==
  /\ req[r].pc = "up_delete"
  /\ LET oldPublicId == OldPublicId(req[r].user.avatar)
         call(ok) == [op |-> "delete", ok |-> ok, id |-> oldPublicId, url |-> EmptyStr]
     IN \E ok \in BOOLEAN :
          /\ media' = IF ok THEN media \ {oldPublicId} ELSE media
          /\ req' = IF ok
                    THEN [req EXCEPT ![r].pc = "up_upload",
                                     ![r].calls = Append(@, call(ok))]
                    ELSE [Finish(r, NextError("DeleteError")) EXCEPT
                            ![r].calls = Append(@, call(ok))]
  /\ UNCHANGED <<users, nextKey, urlStyle, lastWriter>>

\* Lines 135-144: deleteFromCloudinary(oldPublicId) resolves or rejects; a
\* rejection is caught and ignored.
UpDelete(r) ==
  /\ req[r].pc = "up_delete"
  /\ LET oldPublicId == OldPublicId(req[r].user.avatar)
     IN \E ok \in BOOLEAN :
          /\ media' = IF ok THEN media \ {oldPublicId} ELSE media
          /\ req' = [req EXCEPT ![r].pc = "up_upload",
                                ![r].calls = Append(@, [op |-> "delete", ok |-> ok,
                                                        id |-> oldPublicId, url |-> EmptyStr])]
  /\ UNCHANGED <<users, nextKey, urlStyle, lastWriter>>

\* Variant of UpUpload that saves the fields assigned so far when the upload
\* rejects, before forwarding the error.
UpUpload_SavesOnFailure(r) ==
  /\ req[r].pc = "up_upload"
  /\ \E ok \in BOOLEAN :
       IF ok
       THEN /\ nextKey <= MaxUploads
            /\ media' = media \cup {PublicId(nextKey)}
            /\ nextKey' = nextKey + 1
            /\ req' = [req EXCEPT
                 ![r].pc = "up_save",
                 ![r].user = WithPassword([@ EXCEPT !.avatar = UrlOf(urlStyle, nextKey)],
                                          req[r].body),
                 ![r].calls = Append(@, [op |-> "upload", ok |-> TRUE,
                                         id |-> PublicId(nextKey),
                                         url |-> UrlOf(urlStyle, nextKey)])]
            /\ UNCHANGED <<users, lastWriter>>
       ELSE /\ req' = [Finish(r, NextError("UploadError")) EXCEPT
                         ![r].calls = Append(@, [op |-> "upload", ok |-> FALSE,
                                                 id |-> EmptyStr, url |-> EmptyStr])]
            /\ \E mode \in SaveModes :
                 users' = save(users, req[r].user, req[r].loaded, mode)
            /\ lastWriter' = r
            /\ UNCHANGED <<media, nextKey>>
  /\ UNCHANGED urlStyle

\* Lines 148-158: uploadToCloudinary resolves with a url, which becomes the
\* avatar, and the password is assigned; or it rejects and the catch forwards.
UpUpload(r) ==
  /\ req[r].pc = "up_upload"
  /\ \E ok \in BOOLEAN :
       IF ok
       THEN /\ nextKey <= MaxUploads
            /\ media' = media \cup {PublicId(nextKey)}
            /\ nextKey' = nextKey + 1
            /\ req' = [req EXCEPT
                 ![r].pc = "up_save",
                 ![r].user = WithPassword([@ EXCEPT !.avatar = UrlOf(urlStyle, nextKey)],
                                          req[r].body),
                 ![r].calls = Append(@, [op |-> "upload", ok |-> TRUE,
                                         id |-> PublicId(nextKey),
                                         url |-> UrlOf(urlStyle, nextKey)])]
       ELSE /\ req' = [Finish(r, NextError("UploadError")) EXCEPT
                         ![r].calls = Append(@, [op |-> "upload", ok |-> FALSE,
                                                 id |-> EmptyStr, url |-> EmptyStr])]
            /\ UNCHANGED <<media, nextKey>>
  /\ UNCHANGED <<users, urlStyle, lastWriter>>

\* Variant of UpSave with an optimistic concurrency check: a record that
\* changed since the request loaded it is answered with a conflict.
UpSave_VersionCheck(r) ==
  /\ req[r].pc = "up_save"
  /\ \E ok \in BOOLEAN, mode \in SaveModes :
       IF Projected(users[req[r].uid]) # req[r].loaded
       THEN /\ req' = Finish(r, ApiError(409, "Profile was changed by another request"))
            /\ UNCHANGED <<users, lastWriter>>
       ELSE IF ok
       THEN /\ users' = save(users, req[r].user, req[r].loaded, mode)
            /\ lastWriter' = r
            /\ req' = Finish(r, ApiSuccess(200, "Profile updated successfully",
                                           View(req[r].user)))
       ELSE /\ req' = Finish(r, NextError("SaveError"))
            /\ UNCHANGED <<users, lastWriter>>
  /\ UNCHANGED <<media, nextKey, urlStyle>>

\* Lines 160-174: await user.save(). When it resolves, the saved document is
\* the answer (lines 162-168); when it rejects, nothing is stored and the catch
\* hands the error to next (lines 172-174).
UpSave(r) ==
  /\ req[r].pc = "up_save"
  /\ \E ok \in BOOLEAN, mode \in SaveModes :
       IF ok
       THEN /\ users' = save(users, req[r].user, req[r].loaded, mode)
            /\ lastWriter' = r
            /\ req' = Finish(r, ApiSuccess(200, "Profile updated successfully",
                                           View(req[r].user)))
       ELSE /\ req' = Finish(r, NextError("SaveError"))
            /\ UNCHANGED <<users, lastWriter>>
  /\ UNCHANGED <<media, nextKey, urlStyle>>

Next ==
  \/ \E r \in Slots, b \in RegBodies, file \in BOOLEAN : RegFindOne(r, b, file)
  \/ \E r \in Slots : RegUpload(r)
  \/ \E r \in Slots : RegCreate(r)
  \/ \E r \in Slots, b \in LoginBodies : LoginFindOne(r, b)
  \/ \E r \in Slots : LoginMatch(r)
  \/ \E r \in Slots, uid \in UserIds, b \in Patches, file \in BOOLEAN :
        UpFindById(r, uid, b, file)
  \/ \E r \in Slots : UpDelete(r)
  \/ \E r \in Slots : UpUpload(r)
  \/ \E r \in Slots : UpSave(r)

Spec == Init /\ [][Next]_vars

\* ------------------------------------------------------------ vocabulary
IsDone(r, kind) == req[r].kind = kind /\ req[r].pc = "done"

\* Request r was answered through res with this status.
Answered(r, status) == req[r].res.via = "res" /\ req[r].res.status = status

\* The calls of request r to the media adapter with this operation.
Calls(r, op) == {i \in 1..Len(req[r].calls) : req[r].calls[i].op = op}

\* Request r passed the required-field validation of its handler.
ValidRegister(r) ==
  Truthy(req[r].body.name) /\ Truthy(req[r].body.email) /\ Truthy(req[r].body.password)
ValidLogin(r) == Truthy(req[r].body.email) /\ Truthy(req[r].body.password)

\* The media object a stored avatar value names.
AvatarObject(avatar) ==
  PublicId(CHOOSE n \in 1..MaxUploads : UrlOf(urlStyle, n) = avatar)

\* ------------------------------------------------------------ claims

\* C1: of two register requests with the same email, at most one record with
\* that email is stored, and the request that does not create it (and had no
\* upload failure of its own) ends with 400 'User already exists'.
C1_DuplicateRegisterConflict ==
  /\ \A i, j \in 1..Len(users) : users[i].email = users[j].email => i = j
  /\ \A r1, r2 \in Slots :
       ( /\ r1 # r2
         /\ IsDone(r1, "register") /\ IsDone(r2, "register")
         /\ ValidRegister(r1) /\ ValidRegister(r2)
         /\ req[r1].body.email = req[r2].body.email
         /\ Answered(r2, 201)
         /\ req[r1].res # NextError("UploadError") )
       => req[r1].res = ApiError(400, "User already exists")

\* C2: an updateProfile with a new file for a user whose avatar this system
\* uploaded makes exactly one delete call, with the identifier derived from the
\* old avatar value, and then exactly one upload call.
C2_SelfHostedAvatarDeletedThenUploaded ==
  \A r \in Slots :
    ( /\ req[r].kind = "updateProfile" /\ req[r].file
      /\ req[r].loaded # NoUser
      /\ req[r].loaded.avatar # EmptyStr
      /\ Calls(r, "upload") # {} )
    => /\ Len(req[r].calls) = 2
       /\ req[r].calls[1].op = "delete"
       /\ req[r].calls[1].id = OldPublicId(req[r].loaded.avatar)
       /\ req[r].calls[2].op = "upload"

\* C3: a step in which the upload of an updateProfile request fails leaves the
\* user collection as it was and ends the request in the error handler; the
\* request never reaches the save.
C3_UploadFailureAbortsUpdate ==
  [][\A r \in Slots :
       (req[r].kind = "updateProfile" /\ req[r].pc = "up_upload"
          /\ req'[r].pc \notin {"up_upload", "up_save"})
       => /\ users' = users
          /\ req'[r].pc = "done"
          /\ req'[r].res = NextError("UploadError")]_vars

C3_Witness ==
  \E r \in Slots :
    /\ IsDone(r, "updateProfile")
    /\ req[r].res = NextError("UploadError")
    /\ req[r].body.name = "bob"
    /\ req[r].user.name = "bob"
    /\ users[req[r].uid].name = "alice"

\* C4: after a failed delete the upload still runs; when it succeeds the new
\* url is what the request saves and, unless the save itself rejects, answers
\* with status 200, and when it fails the request ends in the error handler
\* with the upload's error.
C4_DeleteFailureSwallowed ==
  \A r \in Slots :
    ( /\ req[r].kind = "updateProfile"
      /\ Len(req[r].calls) >= 1
      /\ req[r].calls[1].op = "delete"
      /\ ~req[r].calls[1].ok )
    => \/ req[r].pc = "up_upload" /\ Len(req[r].calls) = 1
       \/ /\ Len(req[r].calls) = 2
          /\ req[r].calls[2].op = "upload"
          /\ IF req[r].calls[2].ok
             THEN /\ req[r].user.avatar = req[r].calls[2].url
                  /\ \/ req[r].pc = "up_save"
                     \/ req[r].pc = "done" /\ req[r].res = NextError("SaveError")
                     \/ /\ req[r].pc = "done"
                        /\ Answered(r, 200)
                        /\ req[r].res.data.avatar = req[r].calls[2].url
                        /\ lastWriter = r =>
                             users[req[r].uid].avatar = req[r].calls[2].url
             ELSE req[r].pc = "done" /\ req[r].res = NextError("UploadError")

C4_Witness ==
  \E r \in Slots :
    /\ IsDone(r, "updateProfile")
    /\ Answered(r, 200)
    /\ Len(req[r].calls) = 2
    /\ req[r].calls[1].op = "delete" /\ ~req[r].calls[1].ok
    /\ req[r].calls[2].op = "upload" /\ req[r].calls[2].ok
    /\ users[req[r].uid].avatar = req[r].calls[2].url

\* C5: an updateProfile with a new file whose loaded avatar starts with "http"
\* or is empty makes no delete call and, once past the upload step, exactly one
\* upload call; a delete call is made only for a non-empty avatar that does not
\* start with "http", and at most once.
C5_NoDeleteForUrlOrEmptyAvatar ==
  \A r \in Slots :
    (req[r].kind = "updateProfile" /\ req[r].loaded # NoUser)
    => LET old == req[r].loaded.avatar
       IN /\ (req[r].file /\ (old = EmptyStr \/ StartsWith(old, HTTP)))
             => /\ Calls(r, "delete") = {}
                /\ req[r].pc \in {"up_save", "done"} => Cardinality(Calls(r, "upload")) = 1
          /\ Calls(r, "delete") # {}
             => /\ req[r].file
                /\ old # EmptyStr /\ ~StartsWith(old, HTTP)
                /\ Cardinality(Calls(r, "delete")) = 1

C5_Witness ==
  \E r \in Slots :
    /\ IsDone(r, "updateProfile")
    /\ req[r].file
    /\ req[r].loaded # NoUser
    /\ StartsWith(req[r].loaded.avatar, HTTP)
    /\ Len(req[r].calls) = 1
    /\ req[r].calls[1].op = "upload"

\* C6: a login for an email without a record and a login for a registered
\* email with the wrong password get the same response: status 401, the same
\* message, no data and so no token.
C6_LoginFailuresIndistinguishable ==
  \A r1, r2 \in Slots :
    ( /\ IsDone(r1, "login") /\ ValidLogin(r1) /\ req[r1].user = NoUser
      /\ IsDone(r2, "login") /\ ValidLogin(r2) /\ req[r2].user # NoUser
      /\ ~matchPassword(req[r2].user.password, req[r2].body.password) )
    => /\ req[r1].res = req[r2].res
       /\ Answered(r1, 401)
       /\ "data" \notin DOMAIN req[r1].res

C6_Witness ==
  \E r1, r2 \in Slots :
    /\ IsDone(r1, "login") /\ ValidLogin(r1) /\ req[r1].user = NoUser
    /\ req[r1].body.email = "b@x"
    /\ IsDone(r2, "login") /\ ValidLogin(r2) /\ req[r2].user # NoUser
    /\ ~matchPassword(req[r2].user.password, req[r2].body.password)
    /\ Answered(r1, 401) /\ Answered(r2, 401)

\* The stored record of the user of request r is what r loaded: nobody changed
\* it between r's load and now.
Undisturbed(r) == Projected(users[req[r].uid]) = req[r].loaded

\* Request r supplied a non-empty value for this field of the patch.
Supplied(r, field) == req[r].body[field] # Undefined /\ req[r].body[field] # ""

\* C7 as stated: a save that answers 200 stores the bio of the patch whenever
\* the key is present and otherwise leaves the stored bio as it was, stores the
\* name (the password, hashed) of the patch when it is non-empty and otherwise
\* leaves the stored name (password) as it was.
C7_PatchPolicy ==
  [][\A r \in Slots :
       (req[r].kind = "updateProfile" /\ req[r].pc = "up_save"
          /\ req'[r].pc = "done" /\ req'[r].res.via = "res" /\ req'[r].res.status = 200)
       => LET b == req[r].body
              prior == users[req[r].uid]
              stored == users'[req[r].uid]
          IN /\ stored.bio = IF b.bio # Undefined THEN b.bio ELSE prior.bio
             /\ stored.name = IF Supplied(r, "name") THEN b.name ELSE prior.name
             /\ stored.password = IF Supplied(r, "password") THEN Hash(b.password)
                                  ELSE prior.password]_vars

\* C7, amended: the same policy for a save that answers 200 on a record that
\* no other request changed between this request's load and its save.
C7_PatchPolicyUndisturbed ==
  [][\A r \in Slots :
       (req[r].kind = "updateProfile" /\ req[r].pc = "up_save"
          /\ req'[r].pc = "done" /\ req'[r].res.via = "res" /\ req'[r].res.status = 200
          /\ Undisturbed(r))
       => LET b == req[r].body
              prior == users[req[r].uid]
              stored == users'[req[r].uid]
          IN /\ stored.bio = IF b.bio # Undefined THEN b.bio ELSE prior.bio
             /\ stored.name = IF Supplied(r, "name") THEN b.name ELSE prior.name
             /\ stored.password = IF Supplied(r, "password") THEN Hash(b.password)
                                  ELSE prior.password]_vars

C7_Witness ==
  \E r \in Slots :
    /\ IsDone(r, "updateProfile") /\ Answered(r, 200)
    /\ req[r].body.bio = "" /\ req[r].body.name = "" /\ req[r].body.password = ""
    /\ req[r].loaded.bio = "yo"
    /\ lastWriter = r
    /\ users[req[r].uid].bio = ""
    /\ users[req[r].uid].name = req[r].loaded.name
    /\ users[req[r].uid].password = Hash("p1")

\* The updateProfile requests for the user of r, other than r, whose save
\* resolved.
OtherSavers(r) ==
  {q \in Slots \ {r} : /\ IsDone(q, "updateProfile") /\ Answered(q, 200)
                        /\ req[q].uid = req[r].uid}

C9_StoredAvatarExists ==
  (\A r \in Slots : req[r].pc \in {"idle", "done"})
  => \A i \in 1..Len(users) :
       users[i].avatar # EmptyStr => AvatarObject(users[i].avatar) \in media

\* C10: a register request that uploaded a media object and has finished has
\* created the user record that carries that object's url as its avatar.
C10_RegisterUploadOwned ==
  \A r \in Slots :
    ( /\ IsDone(r, "register")
      /\ \E i \in Calls(r, "upload") : req[r].calls[i].ok )
    => /\ Answered(r, 201)
       /\ req[r].res.data.avatar = req[r].avatarUrl

====
